---- MODULE Spec2Model ----
(***************************************************************************)
(* lametric-tesla: a scheduled run wakes the vehicle (bounded retries),    *)
(* fetches its charge state, formats it into display frames and posts the  *)
(* frames to the LaMetric API.  Two variants of the program exist:         *)
(* src/app.js (variable layout) and src/unnamed/part_000 (fixed layout).   *)
(*                                                                         *)
(* All telemetry numbers are held in TENTHS of their unit (876 is 87.6),   *)
(* so that Math.round is a real conversion.                                *)
(***************************************************************************)
EXTENDS Integers, Sequences, FiniteSets, TLC

\* ---------------------------------------------------------------- bounds
\* Number of run slots: runs the scheduler may have in flight at once.
NumRuns == 2
\* Largest battery level (percent) fed to the formatter.
MaxBatteryLevel == 100
\* Largest range, miles added and hours (whole units) swept in tenths.
MaxFieldValue == 12

\* ------------------------------------------------------ program constants
\* app.js:60  if(attempt >= 6)
MaxAttempts == 6
\* app.js:67  setTimeout(resolve, 30000)
BackoffMs == 30000

Runs == 1..NumRuns

\* n units, in tenths
Tenths(n) == n * 10

\* values the wake endpoint reports in response.state
WakeStates == {"online", "asleep", "offline"}

VARIABLES
    \* ---- one entry per run slot
    pc,             \* where runApp is suspended: idle, wake, backoff, charge, done
    attempt,        \* parameter of the innermost wakeUpVehicle frame
    returned,       \* the top-level wakeUpVehicle() has returned
    isAwake,        \* runApp's local isAwake (meaningful once returned)
    lastState,      \* response.state of the last wake response, "" if none
    wakeRequests,   \* wake POSTs issued by the run
    wakeResponses,  \* wake responses received by the run
    waits,          \* 30 s timers started by the run
    timerMs,        \* delay of the last timer the run started, 0 if none
    onlineAt,       \* index of the first response that said online, 0 if none
    chargeRequests, \* charge-state GETs issued by the run
    outcome,        \* none, published, gaveUp, aborted
    failed,         \* a wake or charge-state request of the run has failed
    vehicleData,    \* <<telemetry>> once fetched
    lametricData,   \* frames built by constructLametricData
    post,           \* display POST: none, outstanding, sent, unhandledRejection
    pushes,         \* calls of pushLametricData by the run
    \* ---- inputs and results of the pure functions
    data,           \* telemetry record given to constructLametricData
    chargingArg,    \* isCharging argument given to getIcon
    outApp,         \* app.js constructLametricData(data).frames
    outFixed,       \* part_000 constructLametricData(data).frames
    iconApp,        \* app.js getIcon(data.battery_level, chargingArg)
    iconFixed       \* part_000 getIcon(data.battery_level, chargingArg)

runVars == <<pc, attempt, returned, isAwake, lastState, wakeRequests,
             wakeResponses, waits, timerMs, onlineAt, chargeRequests,
             outcome, failed, vehicleData, lametricData, post, pushes>>
fmtVars == <<data, chargingArg, outApp, outFixed, iconApp, iconFixed>>
vars == <<runVars, fmtVars>>

\* ------------------------------------------------------------ formatting
\* slip: the fraction cut off instead of rounded
MathRound_truncates(t) == t \div 10

\* Math.round on a value in tenths: floor(x + 0.5)
MathRound(t) == (t + 5) \div 10

\* slip: the charging branch dropped
getIcon_noAnimation(batteryLevel, isCharging) ==
    IF batteryLevel < Tenths(25) THEN "i6359"
    ELSE IF batteryLevel < Tenths(50) THEN "i6360"
    ELSE IF batteryLevel < Tenths(75) THEN "i6361"
    ELSE IF batteryLevel < Tenths(95) THEN "i6362"
    ELSE "i6363"

\* slip: the upper bound of every band taken as inclusive
getIcon_inclusiveBands(batteryLevel, isCharging) ==
    IF isCharging THEN "21585"
    ELSE IF batteryLevel <= Tenths(25) THEN "i6359"
    ELSE IF batteryLevel <= Tenths(50) THEN "i6360"
    ELSE IF batteryLevel <= Tenths(75) THEN "i6361"
    ELSE IF batteryLevel <= Tenths(95) THEN "i6362"
    ELSE "i6363"

\* app.js getIcon: charging animation, else the battery tier of the level
getIcon(batteryLevel, isCharging) ==
    IF isCharging THEN "21585"
    ELSE IF batteryLevel < Tenths(25) THEN "i6359"
    ELSE IF batteryLevel < Tenths(50) THEN "i6360"
    ELSE IF batteryLevel < Tenths(75) THEN "i6361"
    ELSE IF batteryLevel < Tenths(95) THEN "i6362"
    ELSE "i6363"

\* slip: the idle branch dropped
getIconFixed_noIdle(batteryLevel, isCharging) ==
    IF batteryLevel < Tenths(25) THEN "i6359"
    ELSE IF batteryLevel < Tenths(50) THEN "i6360"
    ELSE IF batteryLevel < Tenths(75) THEN "i6361"
    ELSE IF batteryLevel < Tenths(95) THEN "i6362"
    ELSE "i6363"

\* part_000 getIcon: idle icon, else the battery tier of the level
getIconFixed(batteryLevel, isCharging) ==
    IF ~isCharging THEN "3582"
    ELSE IF batteryLevel < Tenths(25) THEN "i6359"
    ELSE IF batteryLevel < Tenths(50) THEN "i6360"
    ELSE IF batteryLevel < Tenths(75) THEN "i6361"
    ELSE IF batteryLevel < Tenths(95) THEN "i6362"
    ELSE "i6363"

\* slip: the other variant's rule
IsChargingApp_positive(d) == d.charge_rate > 0

\* app.js:103  data.response.charge_rate != -1.0
IsChargingApp(d) == d.charge_rate # Tenths(-1)

\* part_000:89  data.response.charger_actual_current > 0
IsChargingFixed(d) == d.charger_actual_current > 0

\* app.js constructLametricData(data).frames
constructLametricData(d) ==
    LET isCharging == IsChargingApp(d)
        frames == << [text |-> "Tesla", icon |-> "i2735"],
                     [text |-> ToString(MathRound(d.battery_level)) \o "%",
                      icon |-> getIcon(d.battery_level, isCharging)],
                     [text |-> ToString(MathRound(d.battery_range)) \o " mi",
                      icon |-> "16716"] >>
        isChargingData ==
                  << [text |-> "+" \o ToString(MathRound(d.charge_miles_added_ideal)) \o " mi",
                      icon |-> "i95"],
                     [text |-> ToString(MathRound(d.charge_rate)) \o " mph",
                      icon |-> "i95"],
                     [text |-> ToString(MathRound(d.time_to_full_charge)) \o " hours remaining.",
                      icon |-> "i95"] >>
    IN  IF isCharging THEN frames \o isChargingData ELSE frames

\* slip: the other variant's layout, a frame added while charging
constructLametricDataFixed_extraFrame(d) ==
    LET isCharging == IsChargingFixed(d)
        frames == << [text |-> "Tesla", icon |-> "i2735", index |-> 0],
                     [text |-> ToString(MathRound(d.battery_level)) \o "%",
                      icon |-> getIconFixed(d.battery_level, isCharging), index |-> 1],
                     [text |-> ToString(MathRound(d.battery_range)) \o " mi",
                      icon |-> "i16716", index |-> 2] >>
    IN  IF isCharging
        THEN Append(frames, [text |-> ToString(MathRound(d.charge_rate)) \o " mph",
                             icon |-> "i95", index |-> 3])
        ELSE frames

\* part_000 constructLametricData(data).frames
constructLametricDataFixed(d) ==
    LET isCharging == IsChargingFixed(d)
    IN  << [text |-> "Tesla", icon |-> "i2735", index |-> 0],
           [text |-> ToString(MathRound(d.battery_level)) \o "%",
            icon |-> getIconFixed(d.battery_level, isCharging), index |-> 1],
           [text |-> ToString(MathRound(d.battery_range)) \o " mi",
            icon |-> "i16716", index |-> 2] >>

\* ------------------------------------------------------------ telemetry
Telemetry(level, range, rate, added, hours, current) ==
    [battery_level |-> level, battery_range |-> range, charge_rate |-> rate,
     charge_miles_added_ideal |-> added, time_to_full_charge |-> hours,
     charger_actual_current |-> current]

\* charge-state bodies a run may receive: idle, charging, rate 0
RunTelemetry ==
    { Telemetry(876, 1424, Tenths(-1), 0, 0, 0),
      Telemetry(600, 1802, 220, 53, 14, 160),
      Telemetry(240, 605, 0, 0, 0, 0) }

\* inputs of the pure functions
LevelInputs == 0..Tenths(MaxBatteryLevel)
RateInputs == {Tenths(-2), Tenths(-1), -5, 0, 5, 220}
FieldInputs == 0..Tenths(MaxFieldValue)
FmtInputs ==
    { Telemetry(l, 1802, c, 53, 14, IF c > 0 THEN 160 ELSE 0) :
        l \in LevelInputs, c \in RateInputs }
    \cup { Telemetry(876, x, 220, 53, 14, 160) : x \in FieldInputs }
    \cup { Telemetry(876, 1424, 220, x, 14, 160) : x \in FieldInputs }
    \cup { Telemetry(876, 1424, 220, 53, x, 160) : x \in FieldInputs }
    \cup { Telemetry(876, 1424, Tenths(-1), 0, 0, 0) }

\* ------------------------------------------------------------------ Init
InitRun ==
    /\ pc = [r \in Runs |-> "idle"]
    /\ attempt = [r \in Runs |-> 1]
    /\ returned = [r \in Runs |-> FALSE]
    /\ isAwake = [r \in Runs |-> FALSE]
    /\ lastState = [r \in Runs |-> ""]
    /\ wakeRequests = [r \in Runs |-> 0]
    /\ wakeResponses = [r \in Runs |-> 0]
    /\ waits = [r \in Runs |-> 0]
    /\ timerMs = [r \in Runs |-> 0]
    /\ onlineAt = [r \in Runs |-> 0]
    /\ chargeRequests = [r \in Runs |-> 0]
    /\ outcome = [r \in Runs |-> "none"]
    /\ failed = [r \in Runs |-> FALSE]
    /\ vehicleData = [r \in Runs |-> <<>>]
    /\ lametricData = [r \in Runs |-> <<>>]
    /\ post = [r \in Runs |-> "none"]
    /\ pushes = [r \in Runs |-> 0]

InitFmt ==
    /\ outApp = <<>>
    /\ outFixed = <<>>
    /\ iconApp = ""
    /\ iconFixed = ""

Init ==
    /\ InitRun
    /\ InitFmt
    /\ data = Telemetry(600, 1802, 220, 53, 14, 160)
    /\ chargingArg = FALSE

\* --------------------------------------------------------- wake controller
\* slip: the state compared against the wrong spelling
NotOnline_wrongCase(state) == state # "Online"

\* app.js:59
NotOnline(state) == state # "online"

\* slip: off by one in the give-up test
AttemptsExhausted_offByOne(a) == a > MaxAttempts

\* app.js:60
AttemptsExhausted(a) == a >= MaxAttempts

\* Value the top-level wakeUpVehicle() returns once the frame of attempt a
\* returns ret: every caller awaits the nested call at app.js:68, drops its
\* value, and runs on to return true at app.js:71.
RECURSIVE WakeReturn(_, _)
WakeReturn(a, ret) == IF a = 1 THEN ret ELSE WakeReturn(a - 1, TRUE)

\* runApp after `await wakeUpVehicle()` (app.js:43-47): with isAwake it calls
\* getChargeData, which issues the charge-state GET; otherwise the run ends.
RunAppResume(r, awake) ==
    /\ returned' = [returned EXCEPT ![r] = TRUE]
    /\ isAwake' = [isAwake EXCEPT ![r] = awake]
    /\ IF awake
       THEN /\ pc' = [pc EXCEPT ![r] = "charge"]
            /\ chargeRequests' = [chargeRequests EXCEPT ![r] = @ + 1]
            /\ UNCHANGED outcome
       ELSE /\ pc' = [pc EXCEPT ![r] = "done"]
            /\ outcome' = [outcome EXCEPT ![r] = "gaveUp"]
            /\ UNCHANGED chargeRequests

\* slip: a run-level lock, a trigger skipped while any run is in flight
Trigger_mutex(r) ==
    /\ \A q \in Runs : pc[q] \in {"idle", "done"}
    /\ pc[r] \in {"idle", "done"}
    /\ post[r] # "outstanding"
    /\ pc' = [pc EXCEPT ![r] = "wake"]
    /\ attempt' = [attempt EXCEPT ![r] = 1]
    /\ returned' = [returned EXCEPT ![r] = FALSE]
    /\ isAwake' = [isAwake EXCEPT ![r] = FALSE]
    /\ lastState' = [lastState EXCEPT ![r] = ""]
    /\ wakeRequests' = [wakeRequests EXCEPT ![r] = 1]
    /\ wakeResponses' = [wakeResponses EXCEPT ![r] = 0]
    /\ waits' = [waits EXCEPT ![r] = 0]
    /\ timerMs' = [timerMs EXCEPT ![r] = 0]
    /\ onlineAt' = [onlineAt EXCEPT ![r] = 0]
    /\ chargeRequests' = [chargeRequests EXCEPT ![r] = 0]
    /\ outcome' = [outcome EXCEPT ![r] = "none"]
    /\ failed' = [failed EXCEPT ![r] = FALSE]
    /\ vehicleData' = [vehicleData EXCEPT ![r] = <<>>]
    /\ lametricData' = [lametricData EXCEPT ![r] = <<>>]
    /\ post' = [post EXCEPT ![r] = "none"]
    /\ pushes' = [pushes EXCEPT ![r] = 0]
    /\ UNCHANGED fmtVars

\* The scheduler fires runApp (app.js:39): a fresh run calls wakeUpVehicle()
\* with attempt = 1, which issues the first wake POST (app.js:57).
Trigger(r) ==
    /\ pc[r] \in {"idle", "done"}
    /\ post[r] # "outstanding"
    /\ pc' = [pc EXCEPT ![r] = "wake"]
    /\ attempt' = [attempt EXCEPT ![r] = 1]
    /\ returned' = [returned EXCEPT ![r] = FALSE]
    /\ isAwake' = [isAwake EXCEPT ![r] = FALSE]
    /\ lastState' = [lastState EXCEPT ![r] = ""]
    /\ wakeRequests' = [wakeRequests EXCEPT ![r] = 1]
    /\ wakeResponses' = [wakeResponses EXCEPT ![r] = 0]
    /\ waits' = [waits EXCEPT ![r] = 0]
    /\ timerMs' = [timerMs EXCEPT ![r] = 0]
    /\ onlineAt' = [onlineAt EXCEPT ![r] = 0]
    /\ chargeRequests' = [chargeRequests EXCEPT ![r] = 0]
    /\ outcome' = [outcome EXCEPT ![r] = "none"]
    /\ failed' = [failed EXCEPT ![r] = FALSE]
    /\ vehicleData' = [vehicleData EXCEPT ![r] = <<>>]
    /\ lametricData' = [lametricData EXCEPT ![r] = <<>>]
    /\ post' = [post EXCEPT ![r] = "none"]
    /\ pushes' = [pushes EXCEPT ![r] = 0]
    /\ UNCHANGED fmtVars

\* slip: the timer promise not awaited, the retry issued at once
WakeResponse_noWait(r, state) ==
    /\ pc[r] = "wake"
    /\ lastState' = [lastState EXCEPT ![r] = state]
    /\ wakeResponses' = [wakeResponses EXCEPT ![r] = @ + 1]
    /\ onlineAt' = [onlineAt EXCEPT ![r] =
                      IF state = "online" /\ @ = 0 THEN wakeResponses[r] + 1 ELSE @]
    /\ IF NotOnline(state)
       THEN IF AttemptsExhausted(attempt[r])
            THEN /\ RunAppResume(r, WakeReturn(attempt[r], FALSE))
                 /\ UNCHANGED <<attempt, wakeRequests>>
            ELSE /\ attempt' = [attempt EXCEPT ![r] = @ + 1]
                 /\ wakeRequests' = [wakeRequests EXCEPT ![r] = @ + 1]
                 /\ UNCHANGED <<pc, returned, isAwake, chargeRequests, outcome>>
       ELSE /\ RunAppResume(r, WakeReturn(attempt[r], TRUE))
            /\ UNCHANGED <<attempt, wakeRequests>>
    /\ UNCHANGED <<waits, timerMs, failed, vehicleData, lametricData, post, pushes>>
    /\ UNCHANGED fmtVars

\* The wake POST of the current attempt answers with a parsed body whose
\* response.state is state (app.js:57-71).
WakeResponse(r, state) ==
    /\ pc[r] = "wake"
    /\ lastState' = [lastState EXCEPT ![r] = state]
    /\ wakeResponses' = [wakeResponses EXCEPT ![r] = @ + 1]
    /\ onlineAt' = [onlineAt EXCEPT ![r] =
                      IF state = "online" /\ @ = 0 THEN wakeResponses[r] + 1 ELSE @]
    /\ IF NotOnline(state)
       THEN IF AttemptsExhausted(attempt[r])
            THEN /\ RunAppResume(r, WakeReturn(attempt[r], FALSE))
                 /\ UNCHANGED <<waits, timerMs>>
            ELSE \* app.js:67 starts the 30 s timer
                 /\ pc' = [pc EXCEPT ![r] = "backoff"]
                 /\ waits' = [waits EXCEPT ![r] = @ + 1]
                 /\ timerMs' = [timerMs EXCEPT ![r] = BackoffMs]
                 /\ UNCHANGED <<returned, isAwake, chargeRequests, outcome>>
       ELSE /\ RunAppResume(r, WakeReturn(attempt[r], TRUE))
            /\ UNCHANGED <<waits, timerMs>>
    /\ UNCHANGED <<attempt, wakeRequests, failed, vehicleData, lametricData, post,
                   pushes>>
    /\ UNCHANGED fmtVars

\* slip: the failure of the wake POST is caught and the vehicle taken as awake
WakeError_swallowed(r) ==
    /\ pc[r] = "wake"
    /\ failed' = [failed EXCEPT ![r] = TRUE]
    /\ RunAppResume(r, TRUE)
    /\ UNCHANGED <<attempt, lastState, wakeRequests, wakeResponses, waits,
                   onlineAt, vehicleData, lametricData, post, pushes>>
    /\ UNCHANGED timerMs
    /\ UNCHANGED fmtVars

\* The wake POST fails, or its body does not parse (app.js:57-59): the
\* rejection passes through every awaiting wakeUpVehicle frame and through
\* runApp, whose promise rejects.
WakeError(r) ==
    /\ pc[r] = "wake"
    /\ pc' = [pc EXCEPT ![r] = "done"]
    /\ outcome' = [outcome EXCEPT ![r] = "aborted"]
    /\ failed' = [failed EXCEPT ![r] = TRUE]
    /\ UNCHANGED <<attempt, returned, isAwake, lastState, wakeRequests,
                   wakeResponses, waits, onlineAt, chargeRequests,
                   vehicleData, lametricData, post, pushes>>
    /\ UNCHANGED timerMs
    /\ UNCHANGED fmtVars

\* slip: the timer's promise is never resolved
BackoffFire_neverResolves(r) ==
    /\ pc[r] = "backoff"
    /\ UNCHANGED vars

\* slip: the attempt counter kept in one module-level variable
BackoffFire_sharedAttempt(r) ==
    /\ pc[r] = "backoff"
    /\ pc' = [pc EXCEPT ![r] = "wake"]
    /\ attempt' = [q \in Runs |-> attempt[r] + 1]
    /\ wakeRequests' = [wakeRequests EXCEPT ![r] = @ + 1]
    /\ UNCHANGED <<returned, isAwake, lastState, wakeResponses, waits, timerMs,
                   onlineAt, chargeRequests, outcome, failed, vehicleData,
                   lametricData, post, pushes>>
    /\ UNCHANGED fmtVars

\* The 30 s timer fires (app.js:67) and wakeUpVehicle(attempt + 1) issues the
\* next wake POST (app.js:68, 57).
BackoffFire(r) ==
    /\ pc[r] = "backoff"
    /\ pc' = [pc EXCEPT ![r] = "wake"]
    /\ attempt' = [attempt EXCEPT ![r] = @ + 1]
    /\ wakeRequests' = [wakeRequests EXCEPT ![r] = @ + 1]
    /\ UNCHANGED <<returned, isAwake, lastState, wakeResponses, waits, onlineAt,
                   chargeRequests, outcome, failed, vehicleData, lametricData,
                   post, pushes>>
    /\ UNCHANGED timerMs
    /\ UNCHANGED fmtVars

\* ------------------------------------------------------- fetch and publish
\* The charge-state GET answers with body d (app.js:76-80); runApp formats
\* it and calls pushLametricData, which issues the display POST and returns
\* without awaiting it (app.js:47-52, 153-170).
ChargeResponse(r, d) ==
    /\ pc[r] = "charge"
    /\ vehicleData' = [vehicleData EXCEPT ![r] = <<d>>]
    /\ lametricData' = [lametricData EXCEPT ![r] = constructLametricData(d)]
    /\ pushes' = [pushes EXCEPT ![r] = @ + 1]
    /\ post' = [post EXCEPT ![r] = "outstanding"]
    /\ pc' = [pc EXCEPT ![r] = "done"]
    /\ outcome' = [outcome EXCEPT ![r] = "published"]
    /\ UNCHANGED <<attempt, returned, isAwake, lastState, wakeRequests,
                   wakeResponses, waits, onlineAt, chargeRequests, failed>>
    /\ UNCHANGED timerMs
    /\ UNCHANGED fmtVars

\* The charge-state GET fails or its body does not parse (app.js:76-77, 103):
\* runApp's promise rejects before pushLametricData is reached.
ChargeError(r) ==
    /\ pc[r] = "charge"
    /\ pc' = [pc EXCEPT ![r] = "done"]
    /\ outcome' = [outcome EXCEPT ![r] = "aborted"]
    /\ failed' = [failed EXCEPT ![r] = TRUE]
    /\ UNCHANGED <<attempt, returned, isAwake, lastState, wakeRequests,
                   wakeResponses, waits, onlineAt, chargeRequests,
                   vehicleData, lametricData, post, pushes>>
    /\ UNCHANGED timerMs
    /\ UNCHANGED fmtVars

\* The display POST answers: the .then callback logs 'Update sent!'
\* (app.js:163-169).
PostResolve(r) ==
    /\ post[r] = "outstanding"
    /\ post' = [post EXCEPT ![r] = "sent"]
    /\ UNCHANGED <<pc, attempt, returned, isAwake, lastState, wakeRequests,
                   wakeResponses, waits, onlineAt, chargeRequests, outcome,
                   failed, vehicleData, lametricData, pushes>>
    /\ UNCHANGED timerMs
    /\ UNCHANGED fmtVars

\* slip: a rejection handler that posts again
PostReject_retry(r) ==
    /\ post[r] = "outstanding"
    /\ pushes[r] < 3
    /\ pushes' = [pushes EXCEPT ![r] = @ + 1]
    /\ UNCHANGED <<pc, attempt, returned, isAwake, lastState, wakeRequests,
                   wakeResponses, waits, timerMs, onlineAt, chargeRequests,
                   outcome, failed, vehicleData, lametricData, post>>
    /\ UNCHANGED fmtVars

\* slip: the POST awaited by runApp, its failure failing the run
PostReject_abortsRun(r) ==
    /\ post[r] = "outstanding"
    /\ post' = [post EXCEPT ![r] = "unhandledRejection"]
    /\ outcome' = [outcome EXCEPT ![r] = "aborted"]
    /\ UNCHANGED <<pc, attempt, returned, isAwake, lastState, wakeRequests,
                   wakeResponses, waits, timerMs, onlineAt, chargeRequests,
                   failed, vehicleData, lametricData, pushes>>
    /\ UNCHANGED fmtVars

\* The display POST fails: the chain fetch(...).then(cb) has no rejection
\* handler (app.js:154-169), so the promise .then returned rejects unhandled
\* and the process gets an unhandledRejection.
PostReject(r) ==
    /\ post[r] = "outstanding"
    /\ post' = [post EXCEPT ![r] = "unhandledRejection"]
    /\ UNCHANGED <<pc, attempt, returned, isAwake, lastState, wakeRequests,
                   wakeResponses, waits, onlineAt, chargeRequests, outcome,
                   failed, vehicleData, lametricData, pushes>>
    /\ UNCHANGED timerMs
    /\ UNCHANGED fmtVars

RunStep(r) ==
    \/ Trigger(r)
    \/ \E state \in WakeStates : WakeResponse(r, state)
    \/ WakeError(r)
    \/ BackoffFire(r)
    \/ \E d \in RunTelemetry : ChargeResponse(r, d)
    \/ ChargeError(r)
    \/ PostResolve(r)
    \/ PostReject(r)

Next == \E r \in Runs : RunStep(r)

Spec == Init /\ [][Next]_vars

\* Every request eventually completes and every timer eventually fires; the
\* scheduler itself is under no obligation to trigger.
\* Liveness is checked with two run slots in use.
FairRuns == {r \in Runs : r <= 2}

FairNext == \E r \in FairRuns : RunStep(r)

Fairness ==
    \A r \in FairRuns :
        /\ WF_vars((\E state \in WakeStates : WakeResponse(r, state)) \/ WakeError(r))
        /\ WF_vars(BackoffFire(r))
        /\ WF_vars((\E d \in RunTelemetry : ChargeResponse(r, d)) \/ ChargeError(r))
        /\ WF_vars(PostResolve(r) \/ PostReject(r))

FairSpec == Init /\ [][FairNext]_vars /\ Fairness

\* ------------------------------------------------ the pure functions alone
InitFormat ==
    /\ InitRun
    /\ InitFmt
    /\ data \in FmtInputs
    /\ chargingArg \in BOOLEAN

\* app.js:49  constructLametricData(vehicleData)
ConstructApp ==
    /\ outApp = <<>>
    /\ outApp' = constructLametricData(data)
    /\ UNCHANGED <<data, chargingArg, outFixed, iconApp, iconFixed>>
    /\ UNCHANGED runVars

\* part_000:37  constructLametricData(vehicleData)
ConstructFixed ==
    /\ outFixed = <<>>
    /\ outFixed' = constructLametricDataFixed(data)
    /\ UNCHANGED <<data, chargingArg, outApp, iconApp, iconFixed>>
    /\ UNCHANGED runVars

\* app.js:142  getIcon(batteryLevel, isCharging)
GetIconApp ==
    /\ iconApp = ""
    /\ iconApp' = getIcon(data.battery_level, chargingArg)
    /\ UNCHANGED <<data, chargingArg, outApp, outFixed, iconFixed>>
    /\ UNCHANGED runVars

\* part_000:113  getIcon(batteryLevel, isCharging)
GetIconFixed ==
    /\ iconFixed = ""
    /\ iconFixed' = getIconFixed(data.battery_level, chargingArg)
    /\ UNCHANGED <<data, chargingArg, outApp, outFixed, iconApp>>
    /\ UNCHANGED runVars

FormatNext == ConstructApp \/ ConstructFixed \/ GetIconApp \/ GetIconFixed

FormatSpec == InitFormat /\ [][FormatNext]_vars

\* ================================================================ claims

\* C1: a run issues the charge-state request, or calls pushLametricData,
\* only if one of its wake responses reported "online"; a run whose 6 wake
\* responses are all not online does neither.
C1_GaveUpPropagation ==
    \A r \in Runs :
        (chargeRequests[r] > 0 \/ pushes[r] > 0) => onlineAt[r] > 0

\* C2: once the top-level wakeUpVehicle() has returned, its value is true
\* exactly when the last wake response reported "online" (so false after a
\* 6th response that is still not online).
C2_WakeResult ==
    \A r \in Runs :
        returned[r] => (isAwake[r] <=> lastState[r] = "online")

\* C3: in every state the attempt number of a run is in 1..6 and the run has
\* issued at most 6 wake requests.
C3_AttemptBound ==
    \A r \in Runs :
        /\ attempt[r] \in 1..MaxAttempts
        /\ wakeRequests[r] <= MaxAttempts

C3_Witness ==
    \E r \in Runs :
        /\ attempt[r] = MaxAttempts
        /\ wakeResponses[r] = MaxAttempts
        /\ lastState[r] # "online"

\* C4: once the n-th wake response of a run is the first to report "online",
\* the run has issued exactly n wake requests and started exactly the n-1
\* waits that preceded them, and it is no longer in the wake loop: no wake
\* request is outstanding and no backoff timer is pending.
C4_OnlineStopsLoop ==
    \A r \in Runs :
        onlineAt[r] > 0 =>
            /\ wakeRequests[r] = onlineAt[r]
            /\ waits[r] = onlineAt[r] - 1
            /\ pc[r] \notin {"wake", "backoff"}

C4_Witness ==
    \E r \in Runs : onlineAt[r] = 3 /\ pc[r] = "charge"

\* C5: once a wake or charge-state request of a run has failed, the run has
\* not called and never calls pushLametricData, and it issues no further
\* wake request and no further charge-state request.
C5_FailureAborts ==
    /\ [](\A r \in Runs : failed[r] => pushes[r] = 0 /\ post[r] = "none")
    /\ [][\A r \in Runs :
            failed'[r] =>
                /\ pushes'[r] = pushes[r]
                /\ failed[r] => /\ wakeRequests'[r] = wakeRequests[r]
                                /\ chargeRequests'[r] = chargeRequests[r]]_vars

C5_Witness ==
    \E r \in Runs : failed[r] /\ wakeRequests[r] = 3 /\ chargeRequests[r] = 0

\* C6: a failure of the display POST does not escape pushLametricData: no
\* rejected promise is left unhandled.
C6_PublishFailureSwallowed ==
    \A r \in Runs : post[r] # "unhandledRejection"

\* C7: if every request completes and every timer fires, a started run
\* reaches a terminal outcome (published, gave up or aborted), having issued
\* at most 6 wake requests and started at most 5 backoff waits.
C7_RunTerminates ==
    /\ \A r \in Runs :
          (pc[r] \in {"wake", "backoff", "charge"})
              ~> (pc[r] = "done" /\ outcome[r] \in {"published", "gaveUp", "aborted"})
    /\ [](\A r \in Runs : wakeRequests[r] <= MaxAttempts /\ waits[r] <= MaxAttempts - 1)

C7_Witness ==
    \E r \in Runs :
        /\ pc[r] = "done"
        /\ wakeRequests[r] = MaxAttempts
        /\ waits[r] = MaxAttempts - 1

\* C8 as stated: in both variants getIcon(batteryLevel, false) is one fixed
\* icon, the same for every batteryLevel, and the battery frame of a
\* not-charging payload carries it.
C8_IdleIconBothVariants ==
    /\ (iconFixed # "" /\ ~chargingArg) => iconFixed = "3582"
    /\ (iconApp # "" /\ ~chargingArg) => iconApp = getIcon(0, FALSE)
    /\ (outApp # <<>> /\ ~IsChargingApp(data)) => outApp[2].icon = getIcon(0, FALSE)

\* C8 amended: in part_000 getIcon(batteryLevel, false) is the idle icon
\* '3582' for every batteryLevel, and so is the battery frame's icon of a
\* not-charging payload; in app.js getIcon(batteryLevel, false) is the tier
\* icon of the band [0,25), [25,50), [50,75), [75,95), [95,100] that
\* contains batteryLevel.
C8_IdleIconFixedVariant ==
    LET Tier(l) == IF l < 250 THEN "i6359" ELSE IF l < 500 THEN "i6360"
                   ELSE IF l < 750 THEN "i6361" ELSE IF l < 950 THEN "i6362"
                   ELSE "i6363"
    IN  /\ (iconFixed # "" /\ ~chargingArg) => iconFixed = "3582"
        /\ (outFixed # <<>> /\ data.charger_actual_current <= 0) =>
               outFixed[2].icon = "3582"
        /\ (iconApp # "" /\ ~chargingArg) => iconApp = Tier(data.battery_level)
        /\ (outApp # <<>> /\ data.charge_rate = -10) =>
               outApp[2].icon = Tier(data.battery_level)

C8_Witness ==
    /\ ~chargingArg
    /\ data.charge_rate = -10
    /\ data.battery_level = 600
    /\ iconFixed = "3582"
    /\ iconApp = "i6361"
    /\ outFixed # <<>>
    /\ outApp # <<>>

\* C9 as stated: in app.js a charging payload has the 6 frames label,
\* battery %, range, miles added, charge rate, hours remaining, and the
\* battery-% frame carries the tier icon of the band of battery_level.
C9_ChargingTierIcon ==
    LET Tier(l) == IF l < 250 THEN "i6359" ELSE IF l < 500 THEN "i6360"
                   ELSE IF l < 750 THEN "i6361" ELSE IF l < 950 THEN "i6362"
                   ELSE "i6363"
    IN  (outApp # <<>> /\ data.charge_rate # -10) =>
            /\ Len(outApp) = 6
            /\ outApp[2].icon = Tier(data.battery_level)

\* C9 amended: in app.js a charging payload has the 6 frames label,
\* battery %, range, miles added, charge rate, hours remaining, in that
\* order, and the battery-% frame carries the charging-animation icon
\* '21585' whatever the battery_level (level 60 gives '21585').
C9_ChargingSixFrames ==
    LET Nearest(t) == CHOOSE n \in -3..200 : 10 * n - 5 <= t /\ t < 10 * n + 5
    IN  (outApp # <<>> /\ data.charge_rate # -10) =>
            /\ Len(outApp) = 6
            /\ outApp[1] = [text |-> "Tesla", icon |-> "i2735"]
            /\ outApp[2] = [text |-> ToString(Nearest(data.battery_level)) \o "%",
                            icon |-> "21585"]
            /\ outApp[3] = [text |-> ToString(Nearest(data.battery_range)) \o " mi",
                            icon |-> "16716"]
            /\ outApp[4] = [text |-> "+" \o ToString(Nearest(data.charge_miles_added_ideal)) \o " mi",
                            icon |-> "i95"]
            /\ outApp[5] = [text |-> ToString(Nearest(data.charge_rate)) \o " mph",
                            icon |-> "i95"]
            /\ outApp[6] = [text |-> ToString(Nearest(data.time_to_full_charge)) \o " hours remaining.",
                            icon |-> "i95"]
            /\ (data.battery_level = 600 /\ data.charge_rate = 220) =>
                   [i \in 1..6 |-> outApp[i].text] =
                       <<"Tesla", "60%", "180 mi", "+5 mi", "22 mph", "1 hours remaining.">>

C9_Witness ==
    /\ outApp # <<>>
    /\ data.battery_level = 600
    /\ data.charge_rate = 220
    /\ outApp[2].icon = "21585"

\* C10: app.js constructLametricData returns exactly 3 frames when
\* charge_rate is -1 and exactly 6 frames for every other charge_rate,
\* 0 and the negative values other than -1 included.
C10_FrameCount ==
    outApp # <<>> =>
        Len(outApp) = IF data.charge_rate = -10 THEN 3 ELSE 6

C10_Witness ==
    /\ outApp # <<>>
    /\ data.charge_rate = 0
    /\ Len(outApp) = 6

\* C11: part_000 constructLametricData returns exactly 3 frames whose index
\* values are 0, 1, 2 in order; the payload of an input that differs only in
\* the charging indicator (charger_actual_current) has the same texts and
\* indexes and the same icons except possibly that of frame 2 (index 1).
C11_FixedLayout ==
    outFixed # <<>> =>
        /\ Len(outFixed) = 3
        /\ \A i \in 1..3 : outFixed[i].index = i - 1
        /\ \A current \in {-10, 0, 5, 160} :
              LET other == constructLametricDataFixed(
                               [data EXCEPT !.charger_actual_current = current])
              IN  /\ Len(other) = Len(outFixed)
                  /\ \A i \in 1..Len(outFixed) :
                        /\ other[i].text = outFixed[i].text
                        /\ other[i].index = outFixed[i].index
                        /\ i # 2 => other[i].icon = outFixed[i].icon

C11_Witness ==
    /\ outFixed # <<>>
    /\ data.charger_actual_current = 160
    /\ data.battery_level = 600
    /\ outFixed[2].icon = "i6361"
    /\ outFixed[2].icon #
          constructLametricDataFixed([data EXCEPT !.charger_actual_current = 0])[2].icon

\* C12: for batteryLevel in 0..100 and either isCharging, getIcon of each
\* variant returns one of the defined icons; a tiered icon it returns is the
\* one of the band [0,25), [25,50), [50,75), [75,95), [95,100] that holds
\* batteryLevel.
C12_IconBands ==
    LET Bands == { <<0, 249, "i6359">>, <<250, 499, "i6360">>, <<500, 749, "i6361">>,
                   <<750, 949, "i6362">>, <<950, 1000, "i6363">> }
        TierIcons == { b[3] : b \in Bands }
        InBand(l, icon) == \E b \in Bands : b[1] <= l /\ l <= b[2] /\ b[3] = icon
    IN  data.battery_level \in 0..1000 =>
            /\ iconApp # "" =>
                  /\ iconApp \in TierIcons \cup {"21585"}
                  /\ iconApp \in TierIcons => InBand(data.battery_level, iconApp)
            /\ iconFixed # "" =>
                  /\ iconFixed \in TierIcons \cup {"3582"}
                  /\ iconFixed \in TierIcons => InBand(data.battery_level, iconFixed)

C12_Witness ==
    /\ data.battery_level = 250
    /\ ~chargingArg
    /\ iconApp = "i6360"
    /\ iconFixed = "3582"

\* C13: every number constructLametricData renders is the nearest integer
\* of the field, a fraction of exactly .5 going up: 87.6 gives "88%", 87.5
\* gives "88%", 142.4 gives "142 mi", 1.4 gives "1 hours remaining.".
C13_Rounding ==
    LET Nearest(t) == CHOOSE n \in -3..200 : 10 * n - 5 <= t /\ t < 10 * n + 5
    IN  /\ outApp # <<>> =>
              /\ outApp[2].text = ToString(Nearest(data.battery_level)) \o "%"
              /\ outApp[3].text = ToString(Nearest(data.battery_range)) \o " mi"
              /\ Len(outApp) > 3 =>
                    /\ outApp[4].text =
                          "+" \o ToString(Nearest(data.charge_miles_added_ideal)) \o " mi"
                    /\ outApp[5].text = ToString(Nearest(data.charge_rate)) \o " mph"
                    /\ outApp[6].text =
                          ToString(Nearest(data.time_to_full_charge)) \o " hours remaining."
              /\ data.battery_level \in {875, 876} => outApp[2].text = "88%"
              /\ data.battery_level = 874 => outApp[2].text = "87%"
              /\ data.battery_range = 1424 => outApp[3].text = "142 mi"
        /\ outFixed # <<>> =>
              /\ outFixed[2].text = ToString(Nearest(data.battery_level)) \o "%"
              /\ outFixed[3].text = ToString(Nearest(data.battery_range)) \o " mi"

C13_Witness ==
    /\ outApp # <<>>
    /\ data.battery_level = 876
    /\ data.battery_range = 1424
    /\ data.time_to_full_charge = 14
    /\ outApp[2].text = "88%"
    /\ outApp[3].text = "142 mi"
    /\ outApp[6].text = "1 hours remaining."

\* C14: wake requests of a run are sequential and separated by exactly one
\* 30 s wait: while request k is outstanding the run has started k-1 waits
\* and received k-1 responses; while a timer is pending the last response
\* was not online, its attempt was below 6, and as many waits as requests
\* have been started; a run past the wake loop with r requests has started
\* r-1 waits; after a 6th response there is no wait and no further request.
C14_BackoffBetweenRequests ==
    \A r \in Runs :
        /\ wakeRequests[r] - wakeResponses[r] \in {0, 1}
        /\ pc[r] = "wake" =>
              /\ waits[r] = wakeRequests[r] - 1
              /\ wakeResponses[r] = wakeRequests[r] - 1
        /\ pc[r] = "backoff" =>
              /\ waits[r] = wakeRequests[r]
              /\ wakeResponses[r] = wakeRequests[r]
              /\ lastState[r] # "online"
              /\ wakeRequests[r] < 6
        /\ pc[r] \in {"charge", "done"} => waits[r] = wakeRequests[r] - 1
        /\ waits[r] > 0 => timerMs[r] = 30000
        /\ wakeResponses[r] = 6 => pc[r] \notin {"wake", "backoff"} /\ waits[r] = 5

C14_Witness ==
    \E r \in Runs :
        /\ pc[r] = "backoff"
        /\ wakeRequests[r] = 4
        /\ waits[r] = 4
        /\ timerMs[r] = 30000

\* C15: a run issues its charge-state request only after wakeUpVehicle has
\* returned, calls pushLametricData only after its charge-state response was
\* received and formatted, and issues at most one charge-state request and
\* at most one display POST, also when the POST fails.
C15_StepOrder ==
    \A r \in Runs :
        /\ chargeRequests[r] <= 1
        /\ pushes[r] <= 1
        /\ chargeRequests[r] > 0 =>
              returned[r] /\ isAwake[r] /\ pc[r] \notin {"wake", "backoff"}
        /\ pc[r] = "charge" =>
              pushes[r] = 0 /\ vehicleData[r] = <<>> /\ lametricData[r] = <<>>
        /\ pushes[r] > 0 =>
              chargeRequests[r] = 1 /\ vehicleData[r] # <<>> /\ lametricData[r] # <<>>
        /\ post[r] # "none" <=> pushes[r] = 1

C15_Witness ==
    \E r \in Runs :
        /\ post[r] = "unhandledRejection"
        /\ pushes[r] = 1
        /\ chargeRequests[r] = 1
        /\ wakeRequests[r] = 2

\* C16: a trigger is never held back by another run: a slot that is free
\* can start a run whatever the other runs are doing, so two runs can be in
\* their wake loops at once.
C16_NoMutualExclusion ==
    \A r \in Runs :
        (pc[r] \in {"idle", "done"} /\ post[r] # "outstanding") => ENABLED Trigger(r)

C16_Witness ==
    \E r \in Runs : \E q \in Runs \ {r} :
        /\ pc[r] = "backoff"
        /\ wakeRequests[r] = 2
        /\ pc[q] = "wake"
        /\ wakeRequests[q] = 1

\* C17: every step changes the state of one run only; a run starts at
\* attempt 1 with its first wake request, issues at most 6 wake requests,
\* and the payload it holds is the one built from the telemetry it fetched.
C17_RunsIndependent ==
    /\ [](\A r \in Runs :
            /\ wakeRequests[r] <= MaxAttempts
            /\ lametricData[r] # <<>> =>
                  /\ vehicleData[r] # <<>>
                  /\ lametricData[r] = constructLametricData(vehicleData[r][1]))
    /\ [][\A r \in Runs :
            /\ (pc[r] \in {"idle", "done"} /\ pc'[r] = "wake") =>
                  attempt'[r] = 1 /\ wakeRequests'[r] = 1
            /\ attempt'[r] # attempt[r] =>
                  /\ pc[r] \in {"backoff", "done"}
                  /\ \A q \in Runs \ {r} :
                        /\ attempt'[q] = attempt[q]
                        /\ pc'[q] = pc[q]
                        /\ wakeRequests'[q] = wakeRequests[q]
                        /\ wakeResponses'[q] = wakeResponses[q]
                        /\ lastState'[q] = lastState[q]
                        /\ vehicleData'[q] = vehicleData[q]
                        /\ lametricData'[q] = lametricData[q]
                        /\ post'[q] = post[q]
            /\ lametricData'[r] # lametricData[r] =>
                  \A q \in Runs \ {r} :
                      /\ lametricData'[q] = lametricData[q]
                      /\ vehicleData'[q] = vehicleData[q]]_vars

C17_Witness ==
    \E r \in Runs : \E q \in Runs \ {r} :
        /\ pc[r] = "backoff"
        /\ attempt[r] = 3
        /\ outcome[q] = "published"
        /\ attempt[q] = 1
        /\ lametricData[q] # <<>>

\* C18: the display POST is not awaited: from the moment it is issued the
\* run is finished with outcome published, and stays so whether the POST is
\* outstanding, answered or failed.
C18_FireAndForget ==
    \A r \in Runs :
        post[r] # "none" => pc[r] = "done" /\ outcome[r] = "published"

C18_Witness ==
    \E r \in Runs : pc[r] = "done" /\ post[r] = "outstanding"

====
